---- MODULE Spec2Model ----
(***************************************************************************)
(* Model of Playlist_verifier.py: a poller that scans watch directories,   *)
(* validates playlist file names, moves valid files to the input location  *)
(* and appends audit rows to the playlist_process table.                   *)
(*                                                                         *)
(* File names are sequences of one-character strings so that the slicing   *)
(* and splitting of process_file is computed as the code computes it.      *)
(***************************************************************************)
EXTENDS Integers, Sequences, FiniteSets, TLC

(***************************************************************************)
(* Bounds of the model.                                                    *)
(***************************************************************************)
\* number of entries the environment may drop into the watch directories
MaxArrivals == 2
\* number of times a watch directory may be removed from disk
MaxDirEvents == 1

(***************************************************************************)
(* String helpers (Python str / os.path semantics).                        *)
(***************************************************************************)
Digits == {"0", "1", "2", "3", "4", "5", "6", "7", "8", "9"}

DigitVal(c) ==
    CASE c = "0" -> 0 [] c = "1" -> 1 [] c = "2" -> 2 [] c = "3" -> 3
      [] c = "4" -> 4 [] c = "5" -> 5 [] c = "6" -> 6 [] c = "7" -> 7
      [] c = "8" -> 8 [] c = "9" -> 9

DigitChar(n) ==
    CASE n = 0 -> "0" [] n = 1 -> "1" [] n = 2 -> "2" [] n = 3 -> "3"
      [] n = 4 -> "4" [] n = 5 -> "5" [] n = 6 -> "6" [] n = 7 -> "7"
      [] n = 8 -> "8" [] n = 9 -> "9"

\* str.lower() on one character (the letters that occur in the modelled names)
LowerChar(c) ==
    CASE c = "P" -> "p" [] c = "L" -> "l" [] c = "S" -> "s"
      [] c = "T" -> "t" [] c = "X" -> "x" [] c = "C" -> "c"
      [] c = "H" -> "h" [] c = "Y" -> "y" [] c = "Z" -> "z"
      [] OTHER -> c

\* str.lower()
Lower(s) == [i \in 1..Len(s) |-> LowerChar(s[i])]

\* s[k:] with a 0-based Python start offset k; out-of-range slices are empty
SliceFrom(s, k) == IF k >= Len(s) THEN <<>> ELSE SubSeq(s, k + 1, Len(s))

\* s[0:k]; a short string yields what there is
SliceTo(s, k) == IF k >= Len(s) THEN s ELSE SubSeq(s, 1, k)

\* 1-based positions of character c in s
Positions(s, c) == {i \in 1..Len(s) : s[i] = c}

SetMin(S) == CHOOSE x \in S : \A y \in S : x <= y

SetMax(S) == CHOOSE x \in S : \A y \in S : x >= y

\* number of parts s.split(c) returns
SplitCount(s, c) == Cardinality(Positions(s, c)) + 1

\* s.split(c)[0]: the text before the first c (the whole string without c)
SplitFirst(s, c) ==
    IF Positions(s, c) = {} THEN s
    ELSE SubSeq(s, 1, SetMin(Positions(s, c)) - 1)

\* s.split(c)[1]: the text between the first and the second c (or the end);
\* only defined when s contains c (Python raises IndexError otherwise)
SplitSecond(s, c) ==
    LET first == SetMin(Positions(s, c))
        rest  == SliceFrom(s, first)
    IN  SplitFirst(rest, c)

\* os.path.splitext(name)[1]: the suffix from the last dot on, provided a
\* character other than '.' precedes that dot; otherwise the empty string
splitext_ext(name) ==
    IF Positions(name, ".") = {} THEN <<>>
    ELSE LET dotIndex == SetMax(Positions(name, "."))
         IN  IF \E i \in 1..(dotIndex - 1) : name[i] # "."
             THEN SubSeq(name, dotIndex, Len(name))
             ELSE <<>>

(***************************************************************************)
(* datetime.strptime for formats made of the directives %d, %m and %Y.     *)
(* _strptime compiles the format to a regular expression                   *)
(*   %d  (3[0-1]|[1-2]\d|0[1-9]|[1-9]| [1-9])                              *)
(*   %m  (1[0-2]|0[1-9]|[1-9])                                             *)
(*   %Y  (\d\d\d\d)                                                        *)
(* matches it at the start of the string (first alternative first, with    *)
(* backtracking), raises ValueError when nothing matches or when text      *)
(* remains after the match, and then builds the date, which raises         *)
(* ValueError for year 0 and for a day the month does not have.            *)
(***************************************************************************)
FMT_DMY == <<"d", "m", "Y">>

FMT_YMD == <<"Y", "m", "d">>

IsDig(s, i) == i <= Len(s) /\ s[i] \in Digits

\* the lengths directive dir can consume at offset p (0-based) of s, in the
\* order the regular expression tries its alternatives
DirLens(dir, s, p) ==
    LET c1 == IF p + 1 <= Len(s) THEN s[p + 1] ELSE "?"
        c2 == IF p + 2 <= Len(s) THEN s[p + 2] ELSE "?"
        two == IF dir = "d"
                 THEN \/ (c1 = "3" /\ c2 \in {"0", "1"})
                      \/ (c1 \in {"1", "2"} /\ c2 \in Digits)
                      \/ (c1 = "0" /\ c2 \in Digits \ {"0"})
                 ELSE \/ (c1 = "1" /\ c2 \in {"0", "1", "2"})
                      \/ (c1 = "0" /\ c2 \in Digits \ {"0"})
        one == c1 \in Digits \ {"0"}
        spc == dir = "d" /\ c1 = " " /\ c2 \in Digits \ {"0"}
    IN  IF dir = "Y"
        THEN IF \A k \in 1..4 : IsDig(s, p + k) THEN <<4>> ELSE <<>>
        ELSE (IF two THEN <<2>> ELSE <<>>)
             \o (IF one THEN <<1>> ELSE <<>>)
             \o (IF spc THEN <<2>> ELSE <<>>)

\* numeric value of the digits of s[p+1 .. p+n], ignoring a leading space
RECURSIVE NumVal(_, _, _)
NumVal(s, p, n) ==
    IF n = 0 THEN 0
    ELSE LET c == s[p + n]
         IN  (IF c \in Digits THEN DigitVal(c) ELSE 0)
             + 10 * NumVal(s, p, n - 1)

\* first successful match of the directives fmt[k..] at offset p, as a
\* sequence of <<directive, value>> followed by the end offset; <<>> if none
RECURSIVE MatchFrom(_, _, _, _)
RECURSIVE TryLens(_, _, _, _, _)
TryLens(fmt, k, s, p, lens) ==
    IF lens = <<>> THEN <<>>
    ELSE LET n    == Head(lens)
             rest == MatchFrom(fmt, k + 1, s, p + n)
         IN  IF rest # <<>>
             THEN <<[dir |-> fmt[k], val |-> NumVal(s, p, n)]>> \o rest
             ELSE TryLens(fmt, k, s, p, Tail(lens))

MatchFrom(fmt, k, s, p) ==
    IF k > Len(fmt) THEN <<[dir |-> "end", val |-> p]>>
    ELSE TryLens(fmt, k, s, p, DirLens(fmt[k], s, p))

FieldOf(m, dir) == (CHOOSE i \in 1..Len(m) : m[i].dir = dir)

IsLeap(y) == (y % 4 = 0) /\ ((y % 100 # 0) \/ (y % 400 = 0))

DaysInMonth(y, m) ==
    IF m = 2 THEN (IF IsLeap(y) THEN 29 ELSE 28)
    ELSE IF m \in {4, 6, 9, 11} THEN 30 ELSE 31

\* datetime.strptime(s, fmt): [ok |-> FALSE] stands for ValueError
strptime(s, fmt) ==
    LET m == MatchFrom(fmt, 1, s, 0)
    IN  IF m = <<>> THEN [ok |-> FALSE]
        ELSE LET y   == m[FieldOf(m, "Y")].val
                 mo  == m[FieldOf(m, "m")].val
                 d   == m[FieldOf(m, "d")].val
                 end == m[FieldOf(m, "end")].val
             IN  IF end # Len(s) THEN [ok |-> FALSE]
                 ELSE IF y < 1 \/ d > DaysInMonth(y, mo) THEN [ok |-> FALSE]
                 ELSE [ok |-> TRUE, y |-> y, m |-> mo, d |-> d]

\* decimal digits of n, at least w of them (zero padded)
RECURSIVE Dec(_, _)
Dec(n, w) ==
    IF n < 10 /\ w <= 1 THEN <<DigitChar(n)>>
    ELSE Dec(n \div 10, w - 1) \o <<DigitChar(n % 10)>>

\* date.strftime("%Y-%m-%d") (glibc: the year is not zero padded)
strftime_iso(dt) ==
    Dec(dt.y, 1) \o <<"-">> \o Dec(dt.m, 2) \o <<"-">> \o Dec(dt.d, 2)

(***************************************************************************)
(* The file names the environment may create in a watch directory.         *)
(***************************************************************************)
\* CH1X01012024-003.pls  (the spec's accepted example: prefix CH1, date 01012024, version 003)
NameValid ==
    <<"C", "H", "1", "X", "0", "1", "0", "1", "2", "0", "2", "4", "-", "0", "0", "3", ".", "p", "l", "s">>

\* XYZX01012024-003.pls  (wrong prefix only)
NameBadPrefix ==
    <<"X", "Y", "Z", "X", "0", "1", "0", "1", "2", "0", "2", "4", "-", "0", "0", "3", ".", "p", "l", "s">>

\* CH1X99992024-003.pls  (month 99: the date does not parse)
NameBadDate ==
    <<"C", "H", "1", "X", "9", "9", "9", "9", "2", "0", "2", "4", "-", "0", "0", "3", ".", "p", "l", "s">>

\* CH1X01012024-003.txt  (wrong extension only)
NameBadExt ==
    <<"C", "H", "1", "X", "0", "1", "0", "1", "2", "0", "2", "4", "-", "0", "0", "3", ".", "t", "x", "t">>

\* XYZX99992024-003.txt  (date, prefix and extension all wrong)
NameAllBad ==
    <<"X", "Y", "Z", "X", "9", "9", "9", "9", "2", "0", "2", "4", "-", "0", "0", "3", ".", "t", "x", "t">>

\* XYZX01012024-003.txt  (prefix and extension wrong, date fine)
NameBadPrefixExt ==
    <<"X", "Y", "Z", "X", "0", "1", "0", "1", "2", "0", "2", "4", "-", "0", "0", "3", ".", "t", "x", "t">>

\* CH1X01012024.pls  (no '-' separator)
NameNoDash ==
    <<"C", "H", "1", "X", "0", "1", "0", "1", "2", "0", "2", "4", ".", "p", "l", "s">>

\* CH1X01012024-003  (no '.' at all)
NameNoDot ==
    <<"C", "H", "1", "X", "0", "1", "0", "1", "2", "0", "2", "4", "-", "0", "0", "3">>

\* CH1X20240131-003.pls  (date written year-month-day)
NameYMD ==
    <<"C", "H", "1", "X", "2", "0", "2", "4", "0", "1", "3", "1", "-", "0", "0", "3", ".", "p", "l", "s">>

\* CH1X01012024-003.PLS  (the extension in upper case)
NameUpperExt ==
    <<"C", "H", "1", "X", "0", "1", "0", "1", "2", "0", "2", "4", "-", "0", "0", "3", ".", "P", "L", "S">>

\* CH1X01012024-.pls  (nothing between the '-' and the extension dot)
NameEmptyVersion ==
    <<"C", "H", "1", "X", "0", "1", "0", "1", "2", "0", "2", "4", "-", ".", "p", "l", "s">>

\* CH1X01012024-003.v2.pls  (a dot inside the version)
NameTwoDots ==
    <<"C", "H", "1", "X", "0", "1", "0", "1", "2", "0", "2", "4", "-", "0", "0", "3", ".", "v", "2", ".", "p", "l", "s">>

\* CH1X01012024-003-a.pls  (a second '-')
NameTwoDashes ==
    <<"C", "H", "1", "X", "0", "1", "0", "1", "2", "0", "2", "4", "-", "0", "0", "3", "-", "a", ".", "p", "l", "s">>

FileNames ==
    {NameUpperExt,
     NameEmptyVersion,
     NameTwoDots,
     NameTwoDashes,
     NameValid,
     NameBadPrefix,
     NameBadDate,
     NameBadExt,
     NameAllBad,
     NameBadPrefixExt,
     NameNoDash,
     NameNoDot,
     NameYMD}

\* names a sub-directory (an entry that is not a regular file) may take
SubdirNames == {NameValid}

\* SQL NULL in a column of playlist_process
NULL == <<"NULL">>

\* the playlistwatchfolder column, split at the commas
ConfiguredDirs == <<"w1", "w2">>

\* values the playlistdateformat column may hold ("%d%m%Y", "%Y%m%d")
DateFormats == {FMT_DMY, FMT_YMD}

\* values the playlistextension column may hold (".pls", ".PLS")
Extensions == {<<".", "p", "l", "s">>, <<".", "P", "L", "S">>}

\* the playlist_configuration rows of the second specification: either
\* spelling of the extension
NameConfigurations ==
    [playlistnameprefix : {<<"C", "H", "1">>},
     playlistextension  : Extensions,
     playlistdateformat : DateFormats]

\* the playlist_configuration rows the model starts from
Configurations ==
    [playlistnameprefix : {<<"C", "H", "1">>},
     playlistextension  : {<<".", "p", "l", "s">>},
     playlistdateformat : DateFormats]

(***************************************************************************)
(* process_file: field extraction (lines 143-147).                         *)
(***************************************************************************)
\* prefix = filename[0:3]
prefix_of(filename) == SliceTo(filename, 3)

\* extension = os.path.splitext(filename)[1].lower()
extension_of(filename) == Lower(splitext_ext(filename))

\* date_string = filename.split('-')[0][4:]
date_string_of(filename) == SliceFrom(SplitFirst(filename, "-"), 4)

\* filename.split('-')[1] raises IndexError when the name holds no '-'
raises_IndexError(filename) == SplitCount(filename, "-") < 2

\* fileversion = filename.split('-')[1].split('.')[0]
fileversion_of(filename) == SplitFirst(SplitSecond(filename, "-"), ".")

\* datetime.strptime(date_string, "%d%m%Y"): the format is the literal of
\* line 149, whatever config['playlistdateformat'] holds
parse_playlist_date(filename) == strptime(date_string_of(filename), FMT_DMY)

(***************************************************************************)
(* process_file: the validation cascade (lines 148-160).  The result is    *)
(* the reason handed to handle_validation_failure, or "ok".                *)
(***************************************************************************)
REASON_DATE == "Invalid date format"

REASON_PREFIX == "Invalid prefix"

REASON_EXT == "Invalid file extension"

validate(filename, cfg) ==
    IF ~parse_playlist_date(filename).ok THEN REASON_DATE
    ELSE IF prefix_of(filename) # cfg.playlistnameprefix THEN REASON_PREFIX
    ELSE IF extension_of(filename) # cfg.playlistextension THEN REASON_EXT
    ELSE "ok"

(***************************************************************************)
(* Rows of playlist_process and the persistence gateway.                   *)
(***************************************************************************)
\* variant of rejection_row: the reason is not passed on to remarks
rejection_row_no_remarks(filename, reason) ==
    [playlistfilename    |-> filename,
     playlistfileversion |-> fileversion_of(filename),
     playlistdate        |-> NULL,
     status              |-> 99,
     remarks             |-> "NULL"]

\* the row handle_validation_failure inserts: status 99, remarks, no date
rejection_row(filename, reason) ==
    [playlistfilename    |-> filename,
     playlistfileversion |-> fileversion_of(filename),
     playlistdate        |-> NULL,
     status              |-> 99,
     remarks             |-> reason]

\* variant of acceptance_row: the date column is left out of the insert
acceptance_row_no_date(filename) ==
    [playlistfilename    |-> filename,
     playlistfileversion |-> fileversion_of(filename),
     playlistdate        |-> NULL,
     status              |-> 0,
     remarks             |-> "NULL"]

\* the row insert_into_playlist_process inserts: status 0, date, no remarks
acceptance_row(filename) ==
    [playlistfilename    |-> filename,
     playlistfileversion |-> fileversion_of(filename),
     playlistdate        |-> strftime_iso(parse_playlist_date(filename)),
     status              |-> 0,
     remarks             |-> "NULL"]

\* variant of execute_query: the statement is executed a second time
\* before the commit
execute_query_twice(recs, row, db_ok) ==
    IF db_ok THEN Append(Append(recs, row), row) ELSE recs

\* variant of execute_query: after an error the statement is sent again
\* and goes through
execute_query_retries(recs, row, db_ok) == Append(recs, row)

\* execute_query: the row is committed, or mysql.connector.Error is caught
\* and logged and nothing is written
execute_query(recs, row, db_ok) ==
    IF db_ok THEN Append(recs, row) ELSE recs

(***************************************************************************)
(* shutil.move(file_path, input_file_path) (line 165).  fs is the pair of  *)
(* the watch-directory files and the input location; mv is what the        *)
(* filesystem does:                                                        *)
(*   "ok"      the file leaves the watch directory and is at the target    *)
(*             (os.rename replaces a file already there);                  *)
(*   "error"   the move raises before anything is written;                 *)
(*   "partial" the copy to another device wrote the target and the move    *)
(*             then raised (copy or unlink error): the source stays.       *)
(***************************************************************************)
MoveOutcomes == {"ok", "error", "partial"}

\* variant of shutil_move: a successful move copies the file and leaves
\* the source in the watch directory
shutil_move_keeps_source(fs, path, mv) ==
    IF mv \in {"ok", "partial"}
    THEN [files |-> fs.files,
          input |-> [fs.input EXCEPT ![path[2]] = path[1]]]
    ELSE fs

shutil_move(fs, path, mv) ==
    LET dir      == path[1]
        filename == path[2]
    IN  CASE mv = "ok" ->
               [files |-> fs.files \ {path},
                input |-> [fs.input EXCEPT ![filename] = dir]]
          [] mv = "partial" ->
               [files |-> fs.files,
                input |-> [fs.input EXCEPT ![filename] = dir]]
          [] OTHER -> fs

\* variant of records_after_move: the except branch of the move falls
\* through to the insert instead of returning
records_after_move_no_return(recs, filename, mv, db_ok) ==
    execute_query(recs, acceptance_row(filename), db_ok)

\* variant of records_after_move: a move that raised after the copy had
\* written the target is taken for a success
records_after_move_on_partial(recs, filename, mv, db_ok) ==
    IF mv \in {"ok", "partial"}
    THEN execute_query(recs, acceptance_row(filename), db_ok)
    ELSE recs

\* lines 164-172: the acceptance row is inserted only when the move did
\* not raise; the except branch returns without touching the table
records_after_move(recs, filename, mv, db_ok) ==
    IF mv = "ok" THEN execute_query(recs, acceptance_row(filename), db_ok)
    ELSE recs

\* variant of mark_processed: the path is not remembered
mark_processed_forgets(processed, path) == processed

\* line 139: self.processed_files.add(file_path)
mark_processed(processed, path) == processed \cup {path}

(***************************************************************************)
(* State.                                                                  *)
(***************************************************************************)
VARIABLES
    pc,               \* position of main(): "init", "check_dir", "listdir",
                      \* "next_file", "sleep", "stopped", "crashed",
                      \* "startup_failed"
    config,           \* FileProcessor.config (the playlist_configuration row)
    watch_dirs,       \* FileProcessor.watch_dirs
    processed_files,  \* FileProcessor.processed_files, a set of paths
    dirIdx,           \* index in watch_dirs of the directory being scanned
    pending,          \* entries of os.listdir(watch_dir) not yet iterated
    dirExists,        \* the configured directories that exist on disk
    files,            \* paths <<dir, name>> of regular files in watch dirs
    subdirs,          \* paths <<dir, name>> of entries that are not files
    inputLoc,         \* input location: name -> directory the file at
                      \* input_location/<name> came from, or "none"
    records,          \* the playlist_process table, in insertion order
    connOpen,         \* the MySQL connection is open
    outcome,          \* per dispatched path, how process_file ended (what
                      \* the logger reported for it)
    interrupted,      \* KeyboardInterrupt has been delivered
    candidates,       \* names in the os.listdir result being iterated that
                      \* were regular files outside processed_files when
                      \* the directory was listed
    arrivals,         \* entries created by the environment so far
    dirEvents         \* directory removals by the environment so far

vars ==
    <<pc, config, watch_dirs, processed_files, dirIdx, pending, dirExists,
      files, subdirs, inputLoc, records, connOpen, outcome, interrupted,
      candidates, arrivals, dirEvents>>

Dirs == {ConfiguredDirs[i] : i \in 1..Len(ConfiguredDirs)}

Paths == Dirs \X FileNames

\* the files the environment creates while the poller runs: an accepted
\* name in either directory (the same name twice), a rejected name and a
\* name without '-' in the first one
ArrivalPaths ==
    ({ConfiguredDirs[1]} \X {NameValid, NameBadPrefix, NameNoDash})
    \cup ({ConfiguredDirs[2]} \X {NameValid})

\* the sub-directories the environment creates
SubdirPaths == {ConfiguredDirs[1]} \X SubdirNames

\* the positions of main() inside the polling loop
Running == {"check_dir", "listdir", "next_file", "sleep"}

Terminated == {"stopped", "crashed", "startup_failed"}

\* the directory the pass is working on
watch_dir == watch_dirs[dirIdx]

\* variant of isfile: any directory entry counts (os.path.exists)
isfile_any_entry(path) == path[1] \in dirExists /\ path \in files \cup subdirs

\* os.path.isfile(file_path)
isfile(path) == path[1] \in dirExists /\ path \in files

\* os.listdir(dir)
listdir(dir) == {p[2] : p \in {q \in files \cup subdirs : q[1] = dir}}

(***************************************************************************)
(* Initial state: main() has loaded the INI file and connected; the        *)
(* FileProcessor is about to be constructed.                               *)
(***************************************************************************)
Init ==
    /\ pc = "init"
    /\ config \in Configurations
    /\ watch_dirs = <<>>
    /\ processed_files = {}
    /\ dirIdx = 1
    /\ pending = {}
    /\ dirExists \in SUBSET Dirs
    /\ files = {}
    /\ subdirs = {}
    /\ inputLoc = [n \in FileNames |-> "none"]
    /\ records = <<>>
    /\ connOpen = TRUE
    /\ outcome = <<>>
    /\ interrupted = FALSE
    /\ candidates = {}
    /\ arrivals = 0
    /\ dirEvents = 0

(***************************************************************************)
(* FileProcessor.__init__ / parse_watch_directories (lines 68-72, 101-126).*)
(***************************************************************************)
\* variant of valid_watch_dirs: the existence test is left out
valid_watch_dirs_unchecked(dirs, existing) == dirs

\* the configured directories that exist, in configuration order
RECURSIVE valid_watch_dirs(_, _)
valid_watch_dirs(dirs, existing) ==
    IF dirs = <<>> THEN <<>>
    ELSE (IF Head(dirs) \in existing THEN <<Head(dirs)>> ELSE <<>>)
         \o valid_watch_dirs(Tail(dirs), existing)

\* no valid directory: ValueError leaves main() before the try block
StartupFails ==
    /\ pc = "init"
    /\ valid_watch_dirs(ConfiguredDirs, dirExists) = <<>>
    /\ pc' = "startup_failed"
    /\ UNCHANGED <<config, watch_dirs, processed_files, dirIdx, pending,
                   dirExists, files, subdirs, inputLoc, records, connOpen,
                   outcome, interrupted, arrivals, dirEvents, candidates>>

\* construction succeeds and main() enters the loop with a first pass
Startup ==
    /\ pc = "init"
    /\ valid_watch_dirs(ConfiguredDirs, dirExists) # <<>>
    /\ watch_dirs' = valid_watch_dirs(ConfiguredDirs, dirExists)
    /\ processed_files' = {}
    /\ dirIdx' = 1
    /\ pc' = "check_dir"
    /\ UNCHANGED <<config, pending, dirExists, files, subdirs, inputLoc,
                   records, connOpen, outcome, interrupted, arrivals,
                   dirEvents, candidates>>

(***************************************************************************)
(* scan_and_process_files (lines 128-139), one step per system call.       *)
(***************************************************************************)
\* the for loop over watch_dirs is exhausted: main() goes to time.sleep(10)
PassDone ==
    /\ pc = "check_dir"
    /\ dirIdx > Len(watch_dirs)
    /\ pc' = "sleep"
    /\ UNCHANGED <<config, watch_dirs, processed_files, dirIdx, pending,
                   dirExists, files, subdirs, inputLoc, records, connOpen,
                   outcome, interrupted, arrivals, dirEvents, candidates>>

\* lines 131-133: the directory is gone, warn and continue
SkipMissingDir ==
    /\ pc = "check_dir"
    /\ dirIdx <= Len(watch_dirs)
    /\ watch_dir \notin dirExists
    /\ dirIdx' = dirIdx + 1
    /\ UNCHANGED <<pc, config, watch_dirs, processed_files, pending,
                   dirExists, files, subdirs, inputLoc, records, connOpen,
                   outcome, interrupted, arrivals, dirEvents, candidates>>

\* line 131: os.path.exists(watch_dir) is true
DirFound ==
    /\ pc = "check_dir"
    /\ dirIdx <= Len(watch_dirs)
    /\ watch_dir \in dirExists
    /\ pc' = "listdir"
    /\ UNCHANGED <<config, watch_dirs, processed_files, dirIdx, pending,
                   dirExists, files, subdirs, inputLoc, records, connOpen,
                   outcome, interrupted, arrivals, dirEvents, candidates>>

\* line 135: os.listdir(watch_dir) returns the entries
ListDir ==
    /\ pc = "listdir"
    /\ watch_dir \in dirExists
    /\ pending' = listdir(watch_dir)
    /\ candidates' = {n \in listdir(watch_dir) :
                         /\ isfile(<<watch_dir, n>>)
                         /\ <<watch_dir, n>> \notin processed_files}
    /\ pc' = "next_file"
    /\ UNCHANGED <<config, watch_dirs, processed_files, dirIdx, dirExists,
                   files, subdirs, inputLoc, records, connOpen, outcome,
                   interrupted, arrivals, dirEvents>>

\* line 135: the directory vanished after the existence check; os.listdir
\* raises FileNotFoundError, which nothing catches: the finally clause of
\* main() closes the connection and the process dies
ListDirRaises ==
    /\ pc = "listdir"
    /\ watch_dir \notin dirExists
    /\ pc' = "crashed"
    /\ connOpen' = FALSE
    /\ UNCHANGED <<config, watch_dirs, processed_files, dirIdx, pending,
                   dirExists, files, subdirs, inputLoc, records, outcome,
                   interrupted, arrivals, dirEvents, candidates>>

\* the listing of this directory is exhausted: next directory
DirDone ==
    /\ pc = "next_file"
    /\ pending = {}
    /\ dirIdx' = dirIdx + 1
    /\ pc' = "check_dir"
    /\ candidates' = {}
    /\ UNCHANGED <<config, watch_dirs, processed_files, pending, dirExists,
                   files, subdirs, inputLoc, records, connOpen, outcome,
                   interrupted, arrivals, dirEvents>>

\* line 137 is false: not a regular file, or already in processed_files
SkipEntry(filename) ==
    LET file_path == <<watch_dir, filename>>
    IN  /\ pc = "next_file"
        /\ filename \in pending
        /\ ~(isfile(file_path) /\ file_path \notin processed_files)
        /\ pending' = pending \ {filename}
        /\ UNCHANGED <<pc, config, watch_dirs, processed_files, dirIdx,
                       dirExists, files, subdirs, inputLoc, records, connOpen,
                       outcome, interrupted, arrivals, dirEvents, candidates>>

\* line 137 is true: the entry is handed to process_file
Dispatched(filename) ==
    /\ pc = "next_file"
    /\ filename \in pending
    /\ isfile(<<watch_dir, filename>>)
    /\ <<watch_dir, filename>> \notin processed_files

\* what process_file reported for one dispatched path
Report(path, kind, reason, written) ==
    [path |-> path, kind |-> kind, reason |-> reason, written |-> written]

(***************************************************************************)
(* process_file (lines 141-172) followed by line 139, one action per way   *)
(* the call can end.                                                       *)
(***************************************************************************)
\* line 147: a name without '-' raises IndexError, which neither
\* process_file nor main() catches; the finally clause closes the
\* connection and the process dies with a traceback
ProcessFileIndexError(filename) ==
    LET file_path == <<watch_dir, filename>>
    IN  /\ Dispatched(filename)
        /\ raises_IndexError(filename)
        /\ pc' = "crashed"
        /\ connOpen' = FALSE
        /\ outcome' = Append(outcome,
                             Report(file_path, "IndexError", "none", FALSE))
        /\ UNCHANGED <<config, watch_dirs, processed_files, dirIdx, pending,
                       dirExists, files, subdirs, inputLoc, records,
                       interrupted, arrivals, dirEvents, candidates>>

\* lines 148-160: a check fails; handle_validation_failure inserts the
\* rejection row (db_ok: the insert is committed) and the path is marked
ProcessFileRejected(filename, db_ok) ==
    LET file_path == <<watch_dir, filename>>
        reason    == validate(filename, config)
    IN  /\ Dispatched(filename)
        /\ ~raises_IndexError(filename)
        /\ reason # "ok"
        /\ records' = execute_query(records,
                                    rejection_row(filename, reason), db_ok)
        /\ processed_files' = mark_processed(processed_files, file_path)
        /\ pending' = pending \ {filename}
        /\ outcome' = Append(outcome,
                             Report(file_path, "rejected", reason, db_ok))
        /\ UNCHANGED <<pc, config, watch_dirs, dirIdx, dirExists, files,
                       subdirs, inputLoc, connOpen, interrupted, arrivals,
                       dirEvents, candidates>>

\* lines 162-172: the name is valid; shutil.move ends as mv says, the
\* acceptance row is inserted after a successful move, the path is marked
ProcessFileMove(filename, mv, db_ok) ==
    LET file_path == <<watch_dir, filename>>
        fs        == shutil_move([files |-> files, input |-> inputLoc],
                                 file_path, mv)
    IN  /\ Dispatched(filename)
        /\ ~raises_IndexError(filename)
        /\ validate(filename, config) = "ok"
        /\ files' = fs.files
        /\ inputLoc' = fs.input
        /\ records' = records_after_move(records, filename, mv, db_ok)
        /\ processed_files' = mark_processed(processed_files, file_path)
        /\ pending' = pending \ {filename}
        /\ outcome' = Append(outcome,
                IF mv = "ok"
                THEN Report(file_path, "moved", "none", db_ok)
                ELSE Report(file_path, "move_failed", "none", FALSE))
        /\ UNCHANGED <<pc, config, watch_dirs, dirIdx, dirExists, subdirs,
                       connOpen, interrupted, arrivals, dirEvents, candidates>>

\* KeyboardInterrupt is raised inside process_file after shutil.move has
\* returned and before the insert is committed: "except Exception" does
\* not catch it, main() logs, closes the connection and returns
ProcessFileInterrupted(filename) ==
    LET file_path == <<watch_dir, filename>>
        fs        == shutil_move([files |-> files, input |-> inputLoc],
                                 file_path, "ok")
    IN  /\ Dispatched(filename)
        /\ ~raises_IndexError(filename)
        /\ validate(filename, config) = "ok"
        /\ files' = fs.files
        /\ inputLoc' = fs.input
        /\ outcome' = Append(outcome,
                             Report(file_path, "moved", "none", FALSE))
        /\ interrupted' = TRUE
        /\ connOpen' = FALSE
        /\ pc' = "stopped"
        /\ UNCHANGED <<config, watch_dirs, processed_files, dirIdx, pending,
                       dirExists, subdirs, records, arrivals, dirEvents,
                       candidates>>

(***************************************************************************)
(* main(): the polling loop (lines 236-243).                               *)
(***************************************************************************)
\* time.sleep(10) returns and the next pass starts
Wake ==
    /\ pc = "sleep"
    /\ dirIdx' = 1
    /\ pc' = "check_dir"
    /\ UNCHANGED <<config, watch_dirs, processed_files, pending, dirExists,
                   files, subdirs, inputLoc, records, connOpen, outcome,
                   interrupted, arrivals, dirEvents, candidates>>

\* KeyboardInterrupt is raised wherever the main thread is inside the try
\* block, during a pass or during the sleep; finally closes the connection
Interrupt ==
    /\ pc \in Running
    /\ interrupted' = TRUE
    /\ connOpen' = FALSE
    /\ pc' = "stopped"
    /\ UNCHANGED <<config, watch_dirs, processed_files, dirIdx, pending,
                   dirExists, files, subdirs, inputLoc, records, outcome,
                   arrivals, dirEvents, candidates>>

(***************************************************************************)
(* The environment: files and directories appear and disappear.            *)
(***************************************************************************)
FileArrives(path) ==
    /\ pc \notin Terminated
    /\ arrivals < MaxArrivals
    /\ path[1] \in dirExists
    /\ path \notin files \cup subdirs
    /\ files' = files \cup {path}
    /\ arrivals' = arrivals + 1
    /\ UNCHANGED <<pc, config, watch_dirs, processed_files, dirIdx, pending,
                   dirExists, subdirs, inputLoc, records, connOpen, outcome,
                   interrupted, dirEvents, candidates>>

SubdirArrives(path) ==
    /\ pc \notin Terminated
    /\ arrivals < MaxArrivals
    /\ path[1] \in dirExists
    /\ path \notin files \cup subdirs
    /\ subdirs' = subdirs \cup {path}
    /\ arrivals' = arrivals + 1
    /\ UNCHANGED <<pc, config, watch_dirs, processed_files, dirIdx, pending,
                   dirExists, files, inputLoc, records, connOpen, outcome,
                   interrupted, dirEvents, candidates>>

\* a watch directory is removed with everything in it
DirRemoved(dir) ==
    /\ pc \in Running
    /\ dirEvents < MaxDirEvents
    /\ dir \in dirExists
    /\ dirExists' = dirExists \ {dir}
    /\ files' = {p \in files : p[1] # dir}
    /\ subdirs' = {p \in subdirs : p[1] # dir}
    /\ dirEvents' = dirEvents + 1
    /\ UNCHANGED <<pc, config, watch_dirs, processed_files, dirIdx, pending,
                   inputLoc, records, connOpen, outcome, interrupted,
                   arrivals, candidates>>

\* a removed watch directory is created again, empty
DirRestored(dir) ==
    /\ pc \in Running
    /\ dir \in Dirs \ dirExists
    /\ dirExists' = dirExists \cup {dir}
    /\ UNCHANGED <<pc, config, watch_dirs, processed_files, dirIdx, pending,
                   files, subdirs, inputLoc, records, connOpen, outcome,
                   interrupted, arrivals, dirEvents, candidates>>

Next ==
    \/ StartupFails
    \/ Startup
    \/ PassDone
    \/ SkipMissingDir
    \/ DirFound
    \/ ListDir
    \/ ListDirRaises
    \/ DirDone
    \/ \E filename \in pending : SkipEntry(filename)
    \/ \E filename \in pending : ProcessFileIndexError(filename)
    \/ \E filename \in pending, db_ok \in BOOLEAN :
          ProcessFileRejected(filename, db_ok)
    \/ \E filename \in pending, mv \in MoveOutcomes, db_ok \in BOOLEAN :
          ProcessFileMove(filename, mv, db_ok)
    \/ \E filename \in pending : ProcessFileInterrupted(filename)
    \/ Wake
    \/ Interrupt
    \/ \E path \in ArrivalPaths : FileArrives(path)
    \/ \E path \in SubdirPaths : SubdirArrives(path)
    \/ \E dir \in Dirs : DirRemoved(dir)
    \/ \E dir \in Dirs : DirRestored(dir)

Spec == Init /\ [][Next]_vars

\* the types of the state
TypeOK ==
    /\ pc \in Running \cup Terminated \cup {"init"}
    /\ config \in NameConfigurations
    /\ processed_files \subseteq Paths
    /\ pending \subseteq FileNames
    /\ dirExists \subseteq Dirs
    /\ files \subseteq Paths
    /\ subdirs \subseteq Dirs \X SubdirNames
    /\ connOpen \in BOOLEAN
    /\ interrupted \in BOOLEAN
    /\ arrivals \in 0..MaxArrivals
    /\ dirEvents \in 0..MaxDirEvents
    /\ candidates \subseteq pending \cup {p[2] : p \in Paths}

(***************************************************************************)
(* Second specification: one file of any of the modelled names lies in     *)
(* the first watch directory when the poller starts, both directories      *)
(* exist and the environment stays quiet.  It exercises process_file on    *)
(* every name under every configuration.                                   *)
(***************************************************************************)
InitNames ==
    /\ pc = "init"
    /\ config \in NameConfigurations
    /\ watch_dirs = <<>>
    /\ processed_files = {}
    /\ dirIdx = 1
    /\ pending = {}
    /\ dirExists = Dirs
    /\ \E filename \in FileNames : files = {<<ConfiguredDirs[1], filename>>}
    /\ subdirs = {ConfiguredDirs[2]} \X SubdirNames
    /\ inputLoc = [n \in FileNames |-> "none"]
    /\ records = <<>>
    /\ connOpen = TRUE
    /\ outcome = <<>>
    /\ interrupted = FALSE
    /\ candidates = {}
    /\ arrivals = MaxArrivals
    /\ dirEvents = MaxDirEvents

NextNames ==
    \/ Startup
    \/ PassDone
    \/ DirFound
    \/ ListDir
    \/ DirDone
    \/ \E filename \in pending : SkipEntry(filename)
    \/ \E filename \in pending : ProcessFileIndexError(filename)
    \/ \E filename \in pending, db_ok \in BOOLEAN :
          ProcessFileRejected(filename, db_ok)
    \/ \E filename \in pending, mv \in MoveOutcomes, db_ok \in BOOLEAN :
          ProcessFileMove(filename, mv, db_ok)
    \/ \E filename \in pending : ProcessFileInterrupted(filename)
    \/ Wake
    \/ Interrupt

SpecNames == InitNames /\ [][NextNames]_vars

(***************************************************************************)
(* Helpers of the properties.                                              *)
(***************************************************************************)
\* the reports of process_file, by index
Reports == DOMAIN outcome

\* the report the current step has appended, if any
NewReport == outcome'[Len(outcome')]

Reported == Len(outcome') = Len(outcome) + 1

\* rows of the table recs with a given file name and status
RowsOf(recs, filename, status) ==
    {i \in DOMAIN recs : /\ recs[i].playlistfilename = filename
                         /\ recs[i].status = status}

\* reports of a given kind for files of a given name; written restricts
\* them to those whose insert was committed
ReportsOf(filename, kind, writtenOnly) ==
    {i \in Reports : /\ outcome[i].path[2] = filename
                     /\ outcome[i].kind = kind
                     /\ (writtenOnly => outcome[i].written)}

(***************************************************************************)
(* Properties.                                                             *)
(***************************************************************************)

\* C1: when the move of a validated file fails, the file's path is not
\* added to ProcessedSet, so that the file, still at its original path, is
\* dispatched again by the next pass.
C1_FailedMoveNotMarked ==
    \A i \in Reports :
        outcome[i].kind = "move_failed"
            => outcome[i].path \notin processed_files

\* C2: a step of process_file in which the move raises writes no row to
\* playlist_process (neither status 0 nor status 99) and leaves the file at
\* its original watch-directory path.
C2_FailedMoveWritesNothing ==
    [][(Reported /\ NewReport.kind = "move_failed")
          => /\ records' = records
             /\ NewReport.path \in files'
             /\ NewReport.path \in files]_vars

\* a move has failed: nothing is in the table and the file is where it was
C2_Witness ==
    \E i \in Reports :
        /\ outcome[i].kind = "move_failed"
        /\ outcome[i].path \in files
        /\ records = <<>>

\* C3: no path is handed to process_file twice in one run; in particular a
\* path that was moved or rejected in one pass is not dispatched again in a
\* later pass.
C3_AtMostOneAttempt ==
    \A i, j \in Reports :
        i # j => outcome[i].path # outcome[j].path

\* a later pass lists a file that was rejected before and is still there
C3_Witness ==
    /\ pc = "next_file"
    /\ \E i \in Reports :
          /\ outcome[i].kind = "rejected"
          /\ outcome[i].path[1] = watch_dir
          /\ outcome[i].path[2] \in pending
          /\ isfile(outcome[i].path)
          /\ outcome[i].path \in processed_files

\* C4 as stated: every file that was moved or rejected has exactly one row
\* in playlist_process, whatever the datastore did (counted per file name,
\* the only key the table has: as many rows of a status as files of that
\* name that ended that way).
C4_ExactlyOneRecord ==
    \A filename \in FileNames :
        /\ Cardinality(RowsOf(records, filename, 0))
              = Cardinality(ReportsOf(filename, "moved", FALSE))
        /\ Cardinality(RowsOf(records, filename, 99))
              = Cardinality(ReportsOf(filename, "rejected", FALSE))

\* C4 amended: every file that was moved or rejected has at most one row,
\* and exactly one when its insert was committed; no path is reported
\* twice, so no observed file ever has two rows.
C4_OneRecordIfCommitted ==
    /\ \A filename \in FileNames :
          /\ Cardinality(RowsOf(records, filename, 0))
                = Cardinality(ReportsOf(filename, "moved", TRUE))
          /\ Cardinality(RowsOf(records, filename, 99))
                = Cardinality(ReportsOf(filename, "rejected", TRUE))
    /\ \A i, j \in Reports : i # j => outcome[i].path # outcome[j].path
    /\ Len(records) <= Cardinality({i \in Reports :
                                      outcome[i].kind \in {"moved", "rejected"}})

\* one file was rejected and recorded, another was moved while the
\* datastore refused the insert
C4_Witness ==
    \E i, j \in Reports :
        /\ outcome[i].kind = "rejected" /\ outcome[i].written
        /\ outcome[j].kind = "moved" /\ ~outcome[j].written
        /\ Len(records) = 1

C6_MalformedNameIsRejected ==
    /\ pc # "crashed"
    /\ \A i \in Reports :
          LET filename == outcome[i].path[2]
          IN  (Positions(filename, "-") = {} \/ Positions(filename, ".") = {})
                 => /\ outcome[i].kind = "rejected"
                    /\ outcome[i].reason
                          \in {REASON_DATE, REASON_PREFIX, REASON_EXT}

\* the verdict the validation rules call for: the reason of the first
\* failing check in the order date, prefix, extension, the date being read
\* in the configured format
RuleVerdict(filename, cfg) ==
    IF ~strptime(date_string_of(filename), cfg.playlistdateformat).ok
    THEN REASON_DATE
    ELSE IF prefix_of(filename) # cfg.playlistnameprefix THEN REASON_PREFIX
    ELSE IF extension_of(filename) # cfg.playlistextension THEN REASON_EXT
    ELSE "ok"

\* C7: every dispatched file name that violates the date, prefix or
\* extension rule is rejected with the reason of the first failing check
\* (date, then prefix, then extension) and gets exactly one status 99 row
\* carrying that reason (a row the datastore refused is not held against
\* the validator).
C7_FirstFailingCheckWins ==
    \A i \in Reports :
        LET filename == outcome[i].path[2]
            expected == RuleVerdict(filename, config)
            rows     == RowsOf(records, filename, 99)
        IN  expected # "ok"
               => /\ outcome[i].kind = "rejected"
                  /\ outcome[i].reason = expected
                  /\ \A r \in rows : records[r].remarks = expected
                  /\ Cardinality(rows) = (IF outcome[i].written THEN 1 ELSE 0)

\* C8: a file name that reaches the date check is rejected with
\* 'Invalid date format' exactly when its date digits do not parse under
\* the configured playlistdateformat.
C8_ConfiguredDateFormat ==
    \A i \in Reports :
        outcome[i].kind # "IndexError"
           => ((outcome[i].kind = "rejected" /\ outcome[i].reason = REASON_DATE)
                 <=> ~strptime(date_string_of(outcome[i].path[2]),
                               config.playlistdateformat).ok)

\* C9: the interrupt takes effect only between passes: when the poller has
\* stopped, the pass that was in flight has run to completion (every watch
\* directory visited, every listed entry handled, every moved or rejected
\* file recorded and in ProcessedSet).
C9_InterruptBetweenPasses ==
    pc = "stopped"
       => /\ dirIdx > Len(watch_dirs)
          /\ pending = {}
          /\ \A i \in Reports :
                outcome[i].kind \in {"moved", "rejected"}
                   => outcome[i].path \in processed_files

\* C10: the poll loop ends only through the external interrupt (no file
\* name, directory event or datastore outcome ends it), and once it has
\* ended the datastore connection is released.
C10_OnlyInterruptStops ==
    pc \in {"stopped", "crashed"} => (interrupted /\ ~connOpen)

\* C11: a watch directory that is missing when the pass looks at it, also
\* when it vanished between the existence check and the listing, is skipped
\* for that pass and never stops the poller.
C11_MissingDirIsSkipped ==
    [][(/\ pc \in {"check_dir", "listdir"}
        /\ dirIdx <= Len(watch_dirs)
        /\ watch_dir \notin dirExists
        /\ pc' # pc)
          => /\ pc' \in {"check_dir", "stopped"}
             /\ pc' = "stopped" => interrupted']_vars

C13_StartupNeedsAWatchDir ==
    /\ [][(pc = "init" /\ pc' # "init")
             => IF Dirs \cap dirExists = {}
                THEN pc' = "startup_failed"
                ELSE /\ pc' = "check_dir"
                     /\ {watch_dirs'[i] : i \in DOMAIN watch_dirs'}
                           = Dirs \cap dirExists
                     /\ Len(watch_dirs') = Cardinality(Dirs \cap dirExists)]_vars
    /\ [][pc = "startup_failed" => pc' = "startup_failed"]_vars
    /\ [][(pc \in Running) => (watch_dirs' = watch_dirs)]_vars
    /\ [](pc = "startup_failed"
             => /\ outcome = <<>>
                /\ records = <<>>
                /\ processed_files = {}
                /\ \A n \in FileNames : inputLoc[n] = "none")

\* no configured directory existed at load time and construction failed
C13_Witness ==
    /\ pc = "startup_failed"
    /\ Dirs \cap dirExists = {}
    /\ watch_dirs = <<>>

\* the filesystem is the same before and after the step
FilesystemUnchanged ==
    /\ files' = files
    /\ subdirs' = subdirs
    /\ dirExists' = dirExists
    /\ inputLoc' = inputLoc

\* C14 as stated: handling a validation failure changes nothing in the
\* filesystem (the file stays at its watch-directory path, nothing appears
\* at the input location) and appends one status 99 row carrying the
\* rejection reason in remarks.
C14_RejectionAppendsOneRow ==
    [][(Reported /\ NewReport.kind = "rejected")
          => /\ FilesystemUnchanged
             /\ NewReport.path \in files'
             /\ Len(records') = Len(records) + 1
             /\ SubSeq(records', 1, Len(records)) = records
             /\ records'[Len(records')].status = 99
             /\ records'[Len(records')].remarks = NewReport.reason]_vars

\* C14 amended: handling a validation failure changes nothing in the
\* filesystem, and its only effect on the table is one appended status 99
\* row carrying the rejection reason in remarks when the datastore commits
\* the insert, and no row at all when the insert fails.
C14_RejectionLeavesFileUntouched ==
    [][(Reported /\ NewReport.kind = "rejected")
          => /\ FilesystemUnchanged
             /\ NewReport.path \in files'
             /\ NewReport.reason \in {REASON_DATE, REASON_PREFIX, REASON_EXT}
             /\ IF NewReport.written
                THEN /\ Len(records') = Len(records) + 1
                     /\ SubSeq(records', 1, Len(records)) = records
                     /\ records'[Len(records')].status = 99
                     /\ records'[Len(records')].remarks = NewReport.reason
                     /\ records'[Len(records')].playlistfilename
                           = NewReport.path[2]
                ELSE records' = records]_vars

\* a file was rejected for its prefix: it is where it was, nothing is at
\* the input location and the table holds the one row
C14_Witness ==
    \E i \in Reports :
        /\ outcome[i].kind = "rejected"
        /\ outcome[i].reason = REASON_PREFIX
        /\ outcome[i].written
        /\ outcome[i].path \in files
        /\ \A n \in FileNames : inputLoc[n] = "none"
        /\ Len(records) = 1
        /\ records[1].status = 99
        /\ records[1].remarks = REASON_PREFIX

\* C15: the extension check compares the suffix of the file name and the
\* configured extension without regard to letter case: a file whose suffix
\* differs from the configured extension only in case is never rejected
\* with 'Invalid file extension'.
C15_ExtensionCaseInsensitive ==
    \A i \in Reports :
        Lower(splitext_ext(outcome[i].path[2]))
              = Lower(config.playlistextension)
           => ~(/\ outcome[i].kind = "rejected"
                /\ outcome[i].reason = REASON_EXT)

\* C16: a move whose destination input_location/<filename> already exists
\* is a move failure: the file at the destination is not overwritten, the
\* source stays in its watch directory and no audit row is written.
C16_CollisionIsMoveFailure ==
    [][(/\ Reported
        /\ NewReport.kind \in {"moved", "move_failed"}
        /\ inputLoc[NewReport.path[2]] # "none")
          => /\ NewReport.kind = "move_failed"
             /\ inputLoc' = inputLoc
             /\ NewReport.path \in files'
             /\ records' = records]_vars

\* the text of a file name between its first '-' and its last '.'
VerbatimVersion(filename) ==
    SubSeq(filename,
           SetMin(Positions(filename, "-")) + 1,
           SetMax(Positions(filename, ".")) - 1)

\* C17: the version stored in every acceptance row is non-empty and is the
\* verbatim text between the '-' separator and the extension dot (the last
\* dot) of the file name, also when the name holds several '-' or '.'.
C17_VersionIsVerbatim ==
    \A r \in DOMAIN records :
        records[r].status = 0
           => /\ records[r].playlistfileversion # <<>>
              /\ records[r].playlistfileversion
                    = VerbatimVersion(records[r].playlistfilename)

\* the step ends the iteration of one directory listing
ListingDone == pc = "next_file" /\ pc' = "check_dir"

\* C18 as stated: when the iteration of a listing ends, every regular file
\* that was in the directory and outside ProcessedSet when the directory
\* was listed has been dispatched to process_file and is in ProcessedSet;
\* only regular files are dispatched.
C18_EveryCandidateHandled ==
    [][/\ ListingDone
          => \A n \in candidates :
                /\ <<watch_dir, n>> \in processed_files
                /\ \E i \in Reports : outcome[i].path = <<watch_dir, n>>
       /\ Reported
          => /\ NewReport.path \in files
             /\ NewReport.path \notin subdirs]_vars

\* C18 amended: os.listdir yields every regular file of the directory; an
\* entry that is a regular file outside ProcessedSet when the loop reaches
\* it (a file that was listed can have vanished with its directory by
\* then and is skipped) is dispatched to process_file in that step and is
\* in ProcessedSet afterwards, where it stays; the iteration ends only
\* when every listed entry has had its turn; entries that are not regular
\* files are never dispatched.
C18_EveryPresentCandidateHandled ==
    [][/\ (pc = "listdir" /\ pc' = "next_file")
          => \A p \in files : p[1] = watch_dir => p[2] \in pending'
       /\ \A n \in pending :
             (/\ pc = "next_file" /\ pc' = "next_file"
              /\ n \notin pending'
              /\ isfile(<<watch_dir, n>>)
              /\ <<watch_dir, n>> \notin processed_files)
                => /\ Reported
                   /\ NewReport.path = <<watch_dir, n>>
                   /\ <<watch_dir, n>> \in processed_files'
       /\ ListingDone => pending = {}
       /\ processed_files \subseteq processed_files'
       /\ Reported
          => /\ NewReport.path \in files
             /\ NewReport.path \notin subdirs
             /\ NewReport.path \notin processed_files]_vars

\* a pass has ended in which a regular file was dispatched and marked
\* while the sub-directory next to it was passed over
C18_Witness ==
    /\ pc = "sleep"
    /\ \E i \in Reports, s \in subdirs :
          /\ outcome[i].path \in processed_files
          /\ outcome[i].path[1] = s[1]
          /\ \A j \in Reports : outcome[j].path # s

\* a date column that holds a canonical YYYY-MM-DD text
IsIsoDate(d) ==
    /\ d # NULL
    /\ Len(d) = 10
    /\ \A k \in 1..10 : IF k \in {5, 8} THEN d[k] = "-" ELSE d[k] \in Digits

\* a row of playlist_process as the two insert statements write it
WellFormedRow(row) ==
    /\ row.status \in {0, 99}
    /\ row.playlistfileversion = fileversion_of(row.playlistfilename)
    /\ row.status = 0
          => /\ IsIsoDate(row.playlistdate)
             /\ row.remarks = "NULL"
    /\ row.status = 99
          => /\ row.remarks \in {REASON_DATE, REASON_PREFIX, REASON_EXT}
             /\ row.playlistdate = NULL

\* C19: the audit table is append-only (a step leaves the rows it found
\* unchanged and in place) and every row is well-formed: status 0 or 99, a
\* status 0 row with a parsed date, the parsed version and no remarks, a
\* status 99 row with one of the three rejection reasons and no date.
C19_AppendOnlyWellFormed ==
    /\ [][/\ Len(records') >= Len(records)
          /\ SubSeq(records', 1, Len(records)) = records]_vars
    /\ [](\A r \in DOMAIN records : WellFormedRow(records[r]))

\* the table holds an acceptance row followed by a rejection row
C19_Witness ==
    /\ Len(records) = 2
    /\ records[1].status = 0
    /\ records[2].status = 99

\* C20: an acceptance row is written only after the move of that file has
\* succeeded: the step that appends a status 0 row is a process_file call
\* on a name that passed the three checks, in which the file left its
\* watch directory for the input location; and every status 0 row in the
\* table belongs to such a reported move.
C20_AcceptanceOnlyAfterMove ==
    /\ [][(/\ Len(records') > Len(records)
           /\ records'[Len(records')].status = 0)
             => LET filename == records'[Len(records')].playlistfilename
                IN  /\ Reported
                    /\ NewReport.kind = "moved"
                    /\ NewReport.path[2] = filename
                    /\ validate(filename, config) = "ok"
                    /\ NewReport.path \in files
                    /\ NewReport.path \notin files'
                    /\ inputLoc'[filename] = NewReport.path[1]]_vars
    /\ [](\A r \in DOMAIN records :
             records[r].status = 0
                => \E i \in Reports :
                      /\ outcome[i].kind = "moved"
                      /\ outcome[i].written
                      /\ outcome[i].path[2] = records[r].playlistfilename
                      /\ inputLoc[records[r].playlistfilename] # "none")

\* an acceptance row is in the table, its file is at the input location
\* and gone from the watch directory
C20_Witness ==
    \E r \in DOMAIN records, i \in Reports :
        /\ records[r].status = 0
        /\ outcome[i].kind = "moved"
        /\ outcome[i].path[2] = records[r].playlistfilename
        /\ outcome[i].path \notin files
        /\ inputLoc[records[r].playlistfilename] = outcome[i].path[1]

====
